---- MODULE Spec2Model ----
(***************************************************************************)
(* The InfluxDB plugin of src/influxdb/main.py as a state machine: the     *)
(* metric receiver (_receive_metric_data) that groups samples, the batch   *)
(* sender thread (_sender), the definition loader thread                   *)
(* (_load_definitions) and reconfiguration (set_config / _read_config).    *)
(*                                                                         *)
(* Python values are records [kind, text]: kind is the Python type and     *)
(* text the value's str() cut at its space characters, so that             *)
(* str.replace(' ', ...) and str.format can be computed.                   *)
(***************************************************************************)
EXTENDS Integers, Sequences, FiniteSets, TLC

VARIABLES
    config,           \* self._config
    url,              \* self._url
    database,         \* self._database
    batch_size,       \* self._batch_size
    endpoint,         \* self._endpoint
    enabled,          \* self._enabled
    assigned,         \* the attributes of self that _read_config has assigned
    read_pc,          \* position of the running _read_config: the next assignment, 0 when none runs
    definitions,      \* self._definitions
    loader_pc,        \* position of the definition loader thread
    receiving,        \* the sample of the _receive_metric_data call that is past the
                      \* test of self._enabled, None when no call is
    pending_metrics,  \* self._pending_metrics, keyed by <<source, type>>
    send_queue,       \* self._send_queue, leftmost element first
    sender_pc,        \* position of the batch sender thread
    data,             \* the sender's local list data
    response,         \* the sender's local response (status code)
    nclosed,          \* history: number of groups closed so far
    posted,           \* history: the bodies POSTed so far, as entry numbers
    max_batch_read,   \* history: the largest self._batch_size the running drain compared with
    last_receive      \* history: how the latest _receive_metric_data call ended

vars == <<config, url, database, batch_size, endpoint, enabled, assigned, read_pc, definitions,
          loader_pc, receiving, pending_metrics, send_queue, sender_pc, data, response,
          nclosed, posted, max_batch_read, last_receive>>

config_vars == <<config, url, database, batch_size, endpoint, enabled, assigned, read_pc>>
sender_vars == <<sender_pc, data, response, posted, max_batch_read>>

-----------------------------------------------------------------------------
(* Bounds of the model *)

\* No group is closed once MaxClosed groups have been closed.
MaxClosed == 3

\* In the runs with fair scheduling the host hands in no sample once
\* MaxFairClosed groups have been closed.
MaxFairClosed == 2

-----------------------------------------------------------------------------
(* Python values *)

\* Python's None
None == [none |-> TRUE]

PyString(chunks) == [kind |-> "str", text |-> chunks]
PyInt(n) == [kind |-> "int", text |-> <<ToString(n)>>]
PyBool(b) == [kind |-> "bool", text |-> <<IF b THEN "True" ELSE "False">>]

\* isinstance(v, basestring)
IsString(v) == v.kind = "str"
\* isinstance(v, bool)
IsBool(v) == v.kind = "bool"
\* isinstance(v, int): bool is a subclass of int
IsInt(v) == v.kind \in {"int", "bool"}

RECURSIVE Join(_, _)
\* sep.join(chunks)
Join(chunks, sep) ==
    IF chunks = <<>> THEN ""
    ELSE IF Len(chunks) = 1 THEN chunks[1]
    ELSE chunks[1] \o sep \o Join(Tail(chunks), sep)

\* str(v), which is what '{0}'.format(v) renders
PyStr(v) == Join(v.text, " ")

\* line 141 without the replace: the string as it is
KeepSpaces(v) == PyString(<<Join(v.text, " ")>>)

\* v.replace(' ', '\ ') of a string v
EscapeSpaces(v) == PyString(<<Join(v.text, "\\ ")>>)

\* d.get(k): None when the key is absent
Get(d, k) == IF k \in DOMAIN d THEN d[k] ELSE None

\* d[k] = v on a dict d
Put(d, k, v) == [x \in DOMAIN d \cup {k} |-> IF x = k THEN v ELSE d[x]]

\* str.lower() on the source names of the model
Lower(s) ==
    CASE s = "OpenMotics" -> "openmotics"
      [] s = "openmotics" -> "openmotics"
      [] OTHER -> s

-----------------------------------------------------------------------------
(* Configuration *)

default_batch_size == 10
NanosPerSecond == 1000000000

default_config == [url |-> "", database |-> "openmotics"]

\* The configurations the host hands to the plugin.
Configs ==
    { default_config,
      [url |-> "http://influx:8086", database |-> "openmotics", batch_size |-> 2],
      [url |-> "http://influx:8086", database |-> "", batch_size |-> 1] }

\* A configuration that enables the plugin.
EnabledConfig ==
    [url |-> "http://influx:8086", database |-> "openmotics", batch_size |-> 2]

\* self._config.get('batch_size', 10)
BatchSizeOf(c) == IF "batch_size" \in DOMAIN c THEN c["batch_size"] ELSE default_batch_size

\* '{0}/write?db={1}'.format(self._url, self._database)
EndpointOf(u, d) == u \o "/write?db=" \o d

\* self._url != '' and self._database != ''
EnabledOf(u, d) == u # "" /\ d # ""

\* lines 66-77 with self._enabled assigned first
ReadConfigOrderEnabledFirst ==
    <<"enabled", "url", "database", "batch_size", "auth", "endpoint", "query_endpoint",
      "headers">>

\* lines 66-77: the attributes _read_config assigns, in the order it assigns them
ReadConfigOrder ==
    <<"url", "database", "batch_size", "auth", "endpoint", "query_endpoint", "headers",
      "enabled">>

AttributeNames == {ReadConfigOrder[i] : i \in 1..Len(ReadConfigOrder)}

\* The fields when no _read_config is running: all resolved from self._config.
Resolved ==
    /\ url = config["url"]
    /\ database = config["database"]
    /\ batch_size = BatchSizeOf(config)
    /\ endpoint = EndpointOf(url, database)
    /\ enabled = EnabledOf(url, database)
    /\ assigned = AttributeNames
    /\ read_pc = 0

-----------------------------------------------------------------------------
(* Definitions and samples *)

\* What the definitions service returns: definitions[source][type][metric].
Defs ==
    [s \in {"OpenMotics"} |->
      [t \in {"energy"} |->
        [n \in {"power", "voltage", "current"} |->
          [tags |-> IF n = "current" THEN <<"id", "device">> ELSE <<"id">>]]]]

\* The last .get of line 128 given a default definition without tags
LookupWithDefault(defs, source, metric_type, name) ==
    IF source \in DOMAIN defs
       /\ metric_type \in DOMAIN defs[source]
       /\ name \in DOMAIN defs[source][metric_type]
    THEN defs[source][metric_type][name]
    ELSE [tags |-> <<>>]

\* self._definitions.get(source, {}).get(metric_type, {}).get(name)
Lookup(defs, source, metric_type, name) ==
    IF source \in DOMAIN defs
       /\ metric_type \in DOMAIN defs[source]
       /\ name \in DOMAIN defs[source][metric_type]
    THEN defs[source][metric_type][name]
    ELSE None

Timestamps == {1, 2}

\* The attributes of a sample: its own, then the extra ones.
Sample(source, name, t, value, extra) ==
    [source |-> source, type |-> "energy", metric |-> name, timestamp |-> t,
     value |-> value] @@ extra

WithId == [id |-> PyInt(1)]
WithIdAndDevice == [id |-> PyInt(1), device |-> PyString(<<"Meter", "1">>)]

\* Samples that are grouped: power and voltage share a definition, current
\* declares one more tag.
GroupingMetrics ==
    { Sample("OpenMotics", "power", t, PyInt(230), WithId) : t \in Timestamps }
    \cup { Sample("OpenMotics", "voltage", t, PyBool(TRUE), WithId) : t \in Timestamps }
    \cup { Sample("OpenMotics", "current", t, PyInt(5), WithIdAndDevice) : t \in Timestamps }

\* Samples of one metric name, with and without the tag of its definition, and
\* two samples without a definition: frequency, and the source written in
\* lower case.
PipelineMetrics ==
    { Sample("OpenMotics", "power", t, PyInt(230), x) :
        t \in Timestamps, x \in {<<>>, WithId} }
    \cup { Sample("OpenMotics", "frequency", 1, PyInt(50), WithId),
           Sample("openmotics", "power", 1, PyInt(230), WithId) }

\* Samples of one metric name that carry the tag of its definition.
LiveMetrics == { Sample("OpenMotics", "power", t, PyInt(230), WithId) : t \in Timestamps }

\* The values of the samples whose encoding is looked at: strings without and
\* with a space, the two booleans and an integer.
Values ==
    { PyString(<<"on">>), PyString(<<"two", "words">>), PyBool(TRUE), PyBool(FALSE),
      PyInt(230) }

\* Samples of one metric name with every value of Values.
EncodingMetrics ==
    { Sample("OpenMotics", "power", t, v, WithId) : t \in Timestamps, v \in Values }

\* Samples of two metric names of one tag list, one of them with two values.
FieldMetrics ==
    { Sample("OpenMotics", "power", t, PyInt(w), WithId) :
        t \in Timestamps, w \in {230, 231} }
    \cup { Sample("OpenMotics", "voltage", t, PyBool(TRUE), WithId) : t \in Timestamps }

\* The samples the host hands to _receive_metric_data.
Metrics == GroupingMetrics \cup PipelineMetrics

-----------------------------------------------------------------------------
(* _receive_metric_data *)

\* lines 132-137: the three isinstance tests, each on the value the one before left
EncodeValue(value) ==
    LET v1 == IF IsString(value) THEN PyString(<<"\"" \o PyStr(value) \o "\"">>) ELSE value
        v2 == IF IsBool(v1) THEN PyString(<<PyStr(v1)>>) ELSE v1
        v3 == IF IsInt(v2) THEN PyString(<<PyStr(v2) \o "i">>) ELSE v2
    IN v3

\* metric[tag] raises KeyError for a tag of the definition the sample lacks
MissingTag(metric, definition) ==
    \E i \in 1..Len(definition.tags) : definition.tags[i] \notin DOMAIN metric

RECURSIVE BuildTags(_, _, _)
\* lines 139-143: one entry per tag of the definition, strings escaped
BuildTags(tags, tagKeys, metric) ==
    IF tagKeys = <<>> THEN tags
    ELSE LET tag == Head(tagKeys)
             v == metric[tag]
         IN BuildTags(Put(tags, tag, IF IsString(v) THEN EscapeSpaces(v) ELSE v),
                      Tail(tagKeys), metric)

\* lines 138-143: tags = {'type': source} plus the definition's tags
TagsOf(metric, definition) ==
    BuildTags([type |-> PyString(<<Lower(metric["source"])>>)], definition.tags, metric)

\* lines 148-152: the open group pending agrees with tags on the definition's tags
this_one(pending, tags, definition) ==
    \A i \in 1..Len(definition.tags) :
        tags[definition.tags[i]] = Get(pending.tags, definition.tags[i])

\* lines 147-161: index of the first open group the scan stops at, 0 when none
FirstMatch(entries, tags, definition) ==
    LET m == {i \in 1..Len(entries) : this_one(entries[i], tags, definition)}
    IN IF m = {} THEN 0 ELSE CHOOSE i \in m : \A j \in m : i <= j

\* entries.remove(pending): drops the first element equal to pending
Remove(entries, pending) ==
    LET j == CHOOSE i \in 1..Len(entries) :
                 entries[i] = pending /\ \A k \in 1..(i - 1) : entries[k] # pending
    IN SubSeq(entries, 1, j - 1) \o SubSeq(entries, j + 1, Len(entries))

\* The orders in which d.iteritems() may yield the keys of the dict d. Python 2
\* iterates a dict in the order of its hash table, which the language leaves
\* open: every arrangement of the keys is one.
DictOrders(d) ==
    {order \in [1..Cardinality(DOMAIN d) -> DOMAIN d] :
        \A i, j \in 1..Cardinality(DOMAIN d) : order[i] = order[j] => i = j}

\* ['{0}={1}'.format(k, v) for k, v in d.iteritems()], the keys yielded in order
Pairs(d, order) == [i \in 1..Len(order) |-> order[i] \o "=" \o PyStr(d[order[i]])]

\* isinstance(value, dict): a dict has no kind, a Python value has one
IsDict(value) == "kind" \notin DOMAIN value

\* lines 169-178 for one iteration order of tags and one of value: timestamp is
\* a Python number or None; ' {:.0f}'.format renders a whole number by its digits
Rendered(key, tags, value, timestamp, tag_order, value_order) ==
    LET values == IF IsDict(value)
                  THEN Join(Pairs(value, value_order), ",")
                  ELSE "value=" \o PyStr(value)
        stamp == IF timestamp = None THEN "" ELSE " " \o PyStr(timestamp)
    IN key \o "," \o Join(Pairs(tags, tag_order), ",") \o " " \o values \o stamp

\* _build_entry: the strings the call may return, one for every order in which
\* the two dicts may be iterated
build_entry(key, tags, value, timestamp) ==
    {Rendered(key, tags, value, timestamp, tag_order, value_order) :
        tag_order \in DictOrders(tags),
        value_order \in IF IsDict(value) THEN DictOrders(value) ELSE {<<>>}}

\* line 158 with pending[1] in the place of pending[2]: the tags rendered as fields
QueueEntryOfTags(metric_type, pending, n) ==
    [lines |-> build_entry(metric_type, pending.tags, pending.tags, PyInt(pending.timestamp)),
     seq |-> n,
     type |-> metric_type,
     group |-> pending]

\* The element appended to the queue for the closed group pending: the string
\* _build_entry returns, which is one of lines, with the number of the close
\* and the group it renders as history.
QueueEntry(metric_type, pending, n) ==
    [lines |-> build_entry(metric_type, pending.tags, pending.fields, PyInt(pending.timestamp)),
     seq |-> n,
     type |-> metric_type,
     group |-> pending]

\* self._pending_metrics.setdefault(source, {}).setdefault(metric_type, [])
Entries(pm, bucket) == IF bucket \in DOMAIN pm THEN pm[bucket] ELSE <<>>

\* lines 154-156: the sample joins the open group at index i
Merge(entries, i, name, value) ==
    [entries EXCEPT ![i].fields = Put(@, name, value)]

\* line 163: a new open group for the sample
NewGroup(timestamp, tags, name, value) ==
    [timestamp |-> timestamp, tags |-> tags, fields |-> (name :> value)]

\* appendleft written as append: the entry goes to the right end
append_right(queue, entry) == queue \o <<entry>>

\* self._send_queue.appendleft(entry)
appendleft(queue, entry) == <<entry>> \o queue

\* line 120: the plugin is disabled or the definitions are not loaded
Inactive == enabled = FALSE \/ definitions = None

\* Line 145 moved before the tags are read: the bucket exists when line 140 raises
AtKeyErrorAfterSetdefault(pm, bucket) == Put(pm, bucket, Entries(pm, bucket))

\* The table when metric[tag] raises at line 140: line 145 has not run, so the
\* bucket of the sample is as it was.
AtKeyError(pm, bucket) == pm

\* line 154 as a test that is always true: the timestamps are not compared
SameTimestampAlways(pending, timestamp) == TRUE

\* line 154: pending[0] == timestamp
SameTimestamp(pending, timestamp) == pending.timestamp = timestamp

\* found = True written before the test of line 154: set by every match
found_on_match(matched, same) == matched

\* lines 146, 155: found is set only where the sample is merged
found(matched, same) == matched /\ same

\* lines 145-163 for an accepted sample: the bucket's list and the queue afterwards
Group(entries, queue, metric, definition, n) ==
    LET metric_type == metric["type"]
        timestamp == metric["timestamp"] * NanosPerSecond
        value == EncodeValue(metric["value"])
        tags == TagsOf(metric, definition)
        i == FirstMatch(entries, tags, definition)
        matched == i # 0
        same == matched /\ SameTimestamp(entries[i], timestamp)
        scanned == IF ~matched THEN entries
                   ELSE IF same THEN Merge(entries, i, metric["metric"], value)
                   ELSE Remove(entries, entries[i])
    IN [entries |-> IF found(matched, same) THEN scanned
                    ELSE Append(scanned, NewGroup(timestamp, tags, metric["metric"], value)),
        queue |-> IF matched /\ ~same
                  THEN appendleft(queue, QueueEntry(metric_type, entries[i], n))
                  ELSE queue,
        outcome |-> IF ~matched THEN "new" ELSE IF same THEN "merge" ELSE "flush"]

\* line 120, first operand: the host's call reads self._enabled. Before
\* _read_config has assigned it the read raises AttributeError, which line 164
\* catches; with the flag False the call returns; else the call goes on, and
\* no lock keeps _read_config from assigning the flag before it has ended.
receive_call(metric) ==
    /\ receiving = None
    /\ IF "enabled" \notin assigned
       THEN /\ last_receive' = "fault"
            /\ UNCHANGED receiving
       ELSE IF enabled = FALSE
       THEN /\ last_receive' = "disabled"
            /\ UNCHANGED receiving
       ELSE /\ receiving' = metric
            /\ UNCHANGED last_receive
    /\ UNCHANGED <<config_vars, definitions, loader_pc, pending_metrics, send_queue,
                   sender_vars, nclosed>>

\* line 120, second operand, to line 165: the call from its read of
\* self._definitions to its end; an exception leaves what was assigned before
\* it. The definitions are assigned once and the table is the receiver's own:
\* the queue is the one thing the call shares from here on.
Receive(metric) ==
    LET same(o) == [pending |-> pending_metrics, queue |-> send_queue, outcome |-> o]
        caught(pm) == [pending |-> pm, queue |-> send_queue, outcome |-> "fault"]
        definition == Lookup(definitions, metric["source"], metric["type"], metric["metric"])
        bucket == <<Lower(metric["source"]), metric["type"]>>
    IN IF definitions = None THEN same("disabled")
       ELSE IF definition = None THEN same("unknown")
       ELSE IF MissingTag(metric, definition)
            THEN caught(AtKeyError(pending_metrics, bucket))
       ELSE LET g == Group(Entries(pending_metrics, bucket), send_queue, metric,
                           definition, nclosed + 1)
            IN [pending |-> Put(pending_metrics, bucket, g.entries),
                queue |-> g.queue,
                outcome |-> g.outcome]

\* The call of _receive_metric_data for metric runs on from line 120 to its end.
receive_metric_data(metric) ==
    LET r == Receive(metric)
    IN /\ receiving = metric
       /\ r.outcome = "flush" => nclosed < MaxClosed
       /\ receiving' = None
       /\ pending_metrics' = r.pending
       /\ send_queue' = r.queue
       /\ nclosed' = IF r.outcome = "flush" THEN nclosed + 1 ELSE nclosed
       /\ last_receive' = r.outcome
       /\ UNCHANGED <<config_vars, definitions, loader_pc, sender_vars>>

-----------------------------------------------------------------------------
(* _sender *)

\* What requests.post brings: a response with a status code, or an exception.
Raised == [raised |-> TRUE]
Status(code) == [status_code |-> code]
Responses == {Status(204), Status(500), Raised}
\* The endpoints built from an empty self._url: they carry no scheme.
NoScheme == {""} \cup {EndpointOf("", c["database"]) : c \in Configs}

\* self._send_queue.pop(): the position of the element it returns
pop(queue) == Len(queue)

\* data = [] moved out of the loop: the list of the cycle before is kept
StaleData == data

\* line 183: data = [] at the start of every cycle
FreshData == <<>>

Max(a, b) == IF a >= b THEN a ELSE b

\* lines 186, 189-191: data.append(self._send_queue.pop()); on an empty queue
\* pop raises IndexError, the drain ends and line 191 tests len(data).
sender_pop ==
    /\ sender_pc = "drain"
    /\ IF send_queue # <<>>
       THEN LET at == pop(send_queue)
            IN /\ send_queue' = SubSeq(send_queue, 1, at - 1)
                                 \o SubSeq(send_queue, at + 1, Len(send_queue))
               /\ data' = Append(data, send_queue[at])
               /\ sender_pc' = "test"
               /\ UNCHANGED max_batch_read
       ELSE /\ UNCHANGED <<send_queue, data>>
            /\ sender_pc' = IF Len(data) > 0 THEN "post" ELSE "sleep"
            /\ max_batch_read' = 0
    /\ UNCHANGED <<config_vars, definitions, loader_pc, receiving, pending_metrics,
                   response, nclosed, posted, last_receive>>

\* lines 187-188: len(data) == self._batch_size, read on every turn. Reading
\* self._batch_size before it is assigned raises AttributeError, which line 215
\* catches: the cycle ends without a POST.
sender_test ==
    /\ sender_pc = "test"
    /\ IF "batch_size" \in assigned
       THEN /\ sender_pc' = IF Len(data) = batch_size THEN "post" ELSE "drain"
            /\ max_batch_read' = IF Len(data) = batch_size THEN 0
                                  ELSE Max(max_batch_read, batch_size)
       ELSE /\ sender_pc' = "sleep"
            /\ max_batch_read' = 0
    /\ UNCHANGED <<config_vars, definitions, loader_pc, receiving, pending_metrics,
                   send_queue, data, response, nclosed, posted, last_receive>>

\* lines 199-217: whatever the POST brought, a status other than 204 or an
\* exception (caught at line 215), the thread goes on to the sleep of line 217
AfterPost(result) == "sleep"

\* lines 194-197: the attributes of self the call of requests.post reads
PostReads == {"endpoint", "headers", "auth"}

\* lines 192-198, the call: the arguments are read and requests.post is
\* called. Reading an attribute that is not assigned raises before the call,
\* and an endpoint without a scheme makes requests.post raise before anything
\* is sent; else the request goes out and the thread waits for the answer.
sender_post ==
    /\ sender_pc = "post"
    /\ IF ~(PostReads \subseteq assigned)
       THEN /\ sender_pc' = AfterPost(Raised)
            /\ UNCHANGED <<response, posted>>
       ELSE /\ posted' = Append(posted, [i \in 1..Len(data) |-> data[i].seq])
            /\ IF endpoint \in NoScheme
               THEN /\ response' = Raised
                    /\ sender_pc' = AfterPost(Raised)
               ELSE /\ sender_pc' = "wait"
                    /\ UNCHANGED response
    /\ UNCHANGED <<config_vars, definitions, loader_pc, receiving, pending_metrics,
                   send_queue, data, nclosed, max_batch_read, last_receive>>

\* lines 194-216, the answer: requests.post returns a response or raises
\* (caught at line 215), whatever has happened to the configuration meanwhile
sender_response(result) ==
    /\ sender_pc = "wait"
    /\ response' = result
    /\ sender_pc' = AfterPost(result)
    /\ UNCHANGED <<config_vars, definitions, loader_pc, receiving, pending_metrics,
                   send_queue, data, nclosed, posted, max_batch_read, last_receive>>

\* lines 217, 181-183: the sleep, then the next cycle starts with data = []
sender_sleep ==
    /\ sender_pc = "sleep"
    /\ data' = FreshData
    /\ sender_pc' = "drain"
    /\ UNCHANGED <<config_vars, definitions, loader_pc, receiving, pending_metrics, send_queue,
                   response, nclosed, posted, max_batch_read, last_receive>>

-----------------------------------------------------------------------------
(* _load_definitions *)

\* What get_metric_definitions brings: an exception, success false or true.
LoadResults == {"exception", "failure", "success"}

\* line 82 as "while True": the loop never ends
load_test_always ==
    /\ loader_pc = "test"
    /\ loader_pc' = "call"
    /\ UNCHANGED <<config_vars, definitions, receiving, pending_metrics, send_queue, sender_vars,
                   nclosed, last_receive>>

\* line 82: while self._definitions is None
load_test ==
    /\ loader_pc = "test"
    /\ loader_pc' = IF definitions = None THEN "call" ELSE "done"
    /\ UNCHANGED <<config_vars, definitions, receiving, pending_metrics, send_queue, sender_vars,
                   nclosed, last_receive>>

\* lines 83-89: one call of the definitions service, and what it installs
load_definitions(result) ==
    /\ loader_pc = "call"
    /\ definitions' = IF result = "success" THEN Defs ELSE definitions
    /\ loader_pc' = "sleep"
    /\ UNCHANGED <<config_vars, receiving, pending_metrics, send_queue, sender_vars, nclosed,
                   last_receive>>

\* line 90: time.sleep(5), then the loop test again
load_sleep ==
    /\ loader_pc = "sleep"
    /\ loader_pc' = "test"
    /\ UNCHANGED <<config_vars, definitions, receiving, pending_metrics, send_queue, sender_vars,
                   nclosed, last_receive>>

-----------------------------------------------------------------------------
(* set_config and _read_config *)

\* lines 228-235: the host's call stores the configuration and calls
\* _read_config; the fields still hold what the configuration before resolved to
set_config(c) ==
    /\ assigned = AttributeNames
    /\ read_pc = 0
    /\ config' = c
    /\ read_pc' = 1
    /\ UNCHANGED <<url, database, batch_size, endpoint, enabled, assigned, definitions,
                   loader_pc, receiving, pending_metrics, send_queue, sender_vars,
                   nclosed, last_receive>>

\* lines 66-77: the next assignment of the running _read_config. No lock is
\* held: the sender, the loader and the host's samples run between two
\* assignments and see the fields assigned so far next to the old ones.
read_config ==
    /\ read_pc # 0
    /\ LET attribute == ReadConfigOrder[read_pc]
       IN /\ assigned' = assigned \cup {attribute}
          /\ url' = IF attribute = "url" THEN config["url"] ELSE url
          /\ database' = IF attribute = "database" THEN config["database"] ELSE database
          /\ batch_size' = IF attribute = "batch_size" THEN BatchSizeOf(config)
                           ELSE batch_size
          /\ endpoint' = IF attribute = "endpoint" THEN EndpointOf(url, database)
                         ELSE endpoint
          /\ enabled' = IF attribute = "enabled" THEN EnabledOf(url, database) ELSE enabled
    /\ read_pc' = IF read_pc = Len(ReadConfigOrder) THEN 0 ELSE read_pc + 1
    /\ UNCHANGED <<config, definitions, loader_pc, receiving, pending_metrics, send_queue,
                   sender_vars, nclosed, last_receive>>

-----------------------------------------------------------------------------
(* The plugin *)

\* lines 40-63: the fields after __init__, for any stored configuration
Init ==
    /\ config \in Configs
    /\ Resolved
    /\ definitions = None
    /\ loader_pc = "test"
    /\ receiving = None
    /\ pending_metrics = <<>>
    /\ send_queue = <<>>
    /\ sender_pc = "drain"
    /\ data = <<>>
    /\ response = None
    /\ nclosed = 0
    /\ posted = <<>>
    /\ max_batch_read = 0
    /\ last_receive = "none"

Next ==
    \/ \E metric \in LiveMetrics : receive_call(metric)
    \/ \E metric \in LiveMetrics : receive_metric_data(metric)
    \/ sender_pop
    \/ sender_test
    \/ sender_post
    \/ \E result \in Responses : sender_response(result)
    \/ sender_sleep
    \/ load_test
    \/ \E result \in LoadResults : load_definitions(result)
    \/ load_sleep
    \/ \E c \in Configs : set_config(c)
    \/ read_config

Spec == Init /\ [][Next]_vars

\* lines 53-56: the sender thread is started
start_sender ==
    /\ sender_pc = "unstarted"
    /\ sender_pc' = "drain"
    /\ UNCHANGED <<config_vars, definitions, loader_pc, receiving, pending_metrics, send_queue,
                   data, response, nclosed, posted, max_batch_read, last_receive>>

\* lines 57-60: the loader thread is started
start_loader ==
    /\ sender_pc # "unstarted"
    /\ loader_pc = "unstarted"
    /\ loader_pc' = "test"
    /\ UNCHANGED <<config_vars, definitions, receiving, pending_metrics, send_queue, sender_vars,
                   nclosed, last_receive>>

\* line 62: the constructor calls _read_config
init_read_config ==
    /\ loader_pc # "unstarted"
    /\ assigned = {}
    /\ read_pc = 0
    /\ read_pc' = 1
    /\ UNCHANGED <<config, url, database, batch_size, endpoint, enabled, assigned,
                   definitions, loader_pc, receiving, pending_metrics, send_queue, sender_vars,
                   nclosed, last_receive>>

\* The configurations stored for the plugin when it is constructed.
StartupConfigs == {default_config, EnabledConfig}

\* lines 40-51: the constructor before it starts the threads; the attributes
\* of _read_config do not exist yet and the variables hold placeholders.
InitStartup ==
    /\ config \in StartupConfigs
    /\ url = ""
    /\ database = ""
    /\ batch_size = 0
    /\ endpoint = ""
    /\ enabled = FALSE
    /\ assigned = {}
    /\ read_pc = 0
    /\ definitions = None
    /\ loader_pc = "unstarted"
    /\ receiving = None
    /\ pending_metrics = <<>>
    /\ send_queue = <<>>
    /\ sender_pc = "unstarted"
    /\ data = <<>>
    /\ response = None
    /\ nclosed = 0
    /\ posted = <<>>
    /\ max_batch_read = 0
    /\ last_receive = "none"

\* The constructor, the two threads it starts and the host's samples.
NextStartup ==
    \/ start_sender
    \/ start_loader
    \/ init_read_config
    \/ read_config
    \/ \E metric \in PipelineMetrics : receive_call(metric)
    \/ \E metric \in PipelineMetrics : receive_metric_data(metric)
    \/ sender_pop
    \/ sender_test
    \/ sender_post
    \/ \E result \in Responses : sender_response(result)
    \/ sender_sleep
    \/ load_test
    \/ \E result \in LoadResults : load_definitions(result)
    \/ load_sleep

SpecStartup == InitStartup /\ [][NextStartup]_vars

\* The two daemon threads are scheduled again and again: a thread whose next
\* step is its own code (a pop, a test, the call of requests.post, the return of
\* time.sleep) takes it. Nothing is assumed of the other side of a call: the
\* POST of lines 194-198 passes no timeout and get_metric_definitions is the
\* host's, so sender_response and load_definitions may never happen and the
\* thread then stays in the call.
Fairness ==
    /\ WF_vars(sender_pop)
    /\ WF_vars(sender_test)
    /\ WF_vars(sender_post)
    /\ WF_vars(sender_sleep)
    /\ WF_vars(load_test)
    /\ WF_vars(load_sleep)

\* The plugin when the host hands in no sample once MaxFairClosed groups are closed.
NextFair ==
    \/ \E metric \in LiveMetrics : nclosed < MaxFairClosed /\ receive_call(metric)
    \/ \E metric \in LiveMetrics : receive_metric_data(metric)
    \/ sender_pop
    \/ sender_test
    \/ sender_post
    \/ \E result \in Responses : sender_response(result)
    \/ sender_sleep
    \/ load_test
    \/ \E result \in LoadResults : load_definitions(result)
    \/ load_sleep
    \/ \E c \in Configs : set_config(c)
    \/ read_config

SpecFair == Init /\ [][NextFair]_vars /\ Fairness

\* The receiver on its own, with the samples of GroupingMetrics, from the state in
\* which the stored configuration enables the plugin, the loader has installed
\* the definitions and no sample has arrived; the sender is not scheduled.
InitGrouping ==
    /\ config = EnabledConfig
    /\ Resolved
    /\ definitions = Defs
    /\ loader_pc = "done"
    /\ receiving = None
    /\ pending_metrics = <<>>
    /\ send_queue = <<>>
    /\ sender_pc = "drain"
    /\ data = <<>>
    /\ response = None
    /\ nclosed = 0
    /\ posted = <<>>
    /\ max_batch_read = 0
    /\ last_receive = "none"

NextGrouping ==
    \/ \E metric \in GroupingMetrics : receive_call(metric)
    \/ \E metric \in GroupingMetrics : receive_metric_data(metric)

SpecGrouping == InitGrouping /\ [][NextGrouping]_vars

\* The receiver on its own from the same state, with the samples of PipelineMetrics.
NextDrop ==
    \/ \E metric \in PipelineMetrics : receive_call(metric)
    \/ \E metric \in PipelineMetrics : receive_metric_data(metric)

SpecDrop == InitGrouping /\ [][NextDrop]_vars

\* The receiver on its own from the same state, with the samples of EncodingMetrics.
NextEncoding ==
    \/ \E metric \in EncodingMetrics : receive_call(metric)
    \/ \E metric \in EncodingMetrics : receive_metric_data(metric)

SpecEncoding == InitGrouping /\ [][NextEncoding]_vars

\* The receiver on its own from the same state, with the samples of FieldMetrics.
NextFields ==
    \/ \E metric \in FieldMetrics : receive_call(metric)
    \/ \E metric \in FieldMetrics : receive_metric_data(metric)

SpecFields == InitGrouping /\ [][NextFields]_vars

-----------------------------------------------------------------------------
(* Properties of the grouping table *)

\* The open groups of every bucket.
OpenGroups(b) ==
    {Entries(pending_metrics, b)[i] : i \in 1..Len(Entries(pending_metrics, b))}

\* The sample is past lines 119-143: the plugin is active, the sample has a
\* definition and carries every tag of it.
Accepted(metric) ==
    /\ ~Inactive
    /\ Lookup(definitions, metric["source"], metric["type"], metric["metric"]) # None
    /\ ~MissingTag(metric, Lookup(definitions, metric["source"], metric["type"],
                                  metric["metric"]))

DefinitionOf(metric) ==
    Lookup(definitions, metric["source"], metric["type"], metric["metric"])

BucketOf(metric) == <<Lower(metric["source"]), metric["type"]>>

\* C1: each (source, family) bucket holds at most one open group per distinct
\* TagSet, also when metric names of one family declare different tag lists.
C1_OneOpenGroupPerTagSet ==
    \A b \in DOMAIN pending_metrics :
        \A i, j \in 1..Len(pending_metrics[b]) :
            pending_metrics[b][i].tags = pending_metrics[b][j].tags => i = j

\* The effect C2 states for a sample of the identity of the open group g, whose
\* timestamp differs: one more queue entry, the rendered g; g gone from the
\* open list; the sample alone in a new group at the end of the list.
FlushedBy(metric, g) ==
    LET b == BucketOf(metric)
        before == pending_metrics[b]
        after == pending_metrics'[b]
        count(list) == Cardinality({i \in 1..Len(list) : list[i] = g})
    IN /\ Len(send_queue') = Len(send_queue) + 1
       /\ Head(send_queue').lines = build_entry(metric["type"], g.tags, g.fields, PyInt(g.timestamp))
       /\ Tail(send_queue') = send_queue
       /\ count(after) = count(before) - 1
       /\ Len(after) = Len(before)
       /\ after[Len(after)] =
            [timestamp |-> metric["timestamp"] * NanosPerSecond,
             tags |-> TagsOf(metric, DefinitionOf(metric)),
             fields |-> (metric["metric"] :> EncodeValue(metric["value"]))]

\* C2: when an open group of an identity has timestamp T1 and a sample of the
\* same identity arrives with timestamp T2 # T1, that call queues exactly one
\* entry, the rendered T1 group, removes the T1 group from the open list and
\* puts the sample in a new group.
C2_FlushOnTimestampChange ==
    [][\A metric \in Metrics :
          (Accepted(metric) /\ receive_metric_data(metric)) =>
              \A g \in OpenGroups(BucketOf(metric)) :
                  (g.tags = TagsOf(metric, DefinitionOf(metric))
                   /\ g.timestamp # metric["timestamp"] * NanosPerSecond)
                  => FlushedBy(metric, g)]_vars

\* The tag keys of the TagSet of a sample named n in bucket b: type, and the
\* tags its definition declares.
TagKeysOf(b, n) ==
    UNION {IF Lower(src) = b[1] /\ Lookup(definitions, src, b[2], n) # None
           THEN {Lookup(definitions, src, b[2], n).tags[k] :
                    k \in 1..Len(Lookup(definitions, src, b[2], n).tags)} \cup {"type"}
           ELSE {} : src \in DOMAIN definitions}

\* C3: for any two accepted samples with identical source, family, TagSet and
\* timestamp and different metric names, the closed group emitted for that
\* identity and timestamp holds both names. A field n of a group stands for a
\* sample named n with the group's timestamp whose TagSet is the group's tags
\* at the tag keys of n. One sample is behind a field of a queued entry; the
\* other, of the same TagSet and timestamp, is behind a field of another
\* group, open or queued.
C3_AnyTwoSamplesShareTheClosedGroup ==
    definitions # None =>
        \A k \in 1..Len(send_queue) :
            LET e == send_queue[k]
                b == <<PyStr(e.group.tags["type"]), e.type>>
                others == OpenGroups(b)
                          \cup {send_queue[j].group :
                                  j \in {i \in 1..Len(send_queue) :
                                           i # k /\ send_queue[i].type = e.type}}
            IN \A g \in others : \A n1 \in DOMAIN e.group.fields :
                   \A n2 \in DOMAIN g.fields :
                       (/\ n1 # n2
                        /\ TagKeysOf(b, n1) = TagKeysOf(b, n2)
                        /\ g.timestamp = e.group.timestamp
                        /\ \A t \in TagKeysOf(b, n1) : g.tags[t] = e.group.tags[t])
                       => n2 \in DOMAIN e.group.fields

-----------------------------------------------------------------------------
(* Properties of the dispatch queue and the sender *)

RECURSIVE Flatten(_)
\* The entry numbers of all bodies, in the order they were POSTed.
Flatten(bodies) == IF bodies = <<>> THEN <<>> ELSE Head(bodies) \o Flatten(Tail(bodies))

Numbers(entries) == [i \in 1..Len(entries) |-> entries[i].seq]
Range(seq) == {seq[i] : i \in 1..Len(seq)}
NoRepeat(seq) == \A i, j \in 1..Len(seq) : seq[i] = seq[j] => i = j

\* C4: the entries appear in the POST bodies, within a body and across
\* bodies, in the order in which their groups were closed: the k-th entry
\* POSTed is the k-th group closed, whatever ingestion did in between.
C4_QueueOrder ==
    /\ \A k \in 1..Len(Flatten(posted)) : Flatten(posted)[k] = k
    /\ \A i, j \in 1..Len(data) : i < j => data[i].seq < data[j].seq

\* C4, witness: three groups were closed and POSTed in two bodies, the first
\* holding two entries, with a group closed after the first POST.
C4_Witness ==
    /\ Len(posted) = 2
    /\ posted[1] = <<1, 2>>
    /\ posted[2] = <<3>>

\* The step that ends the drain of a cycle, by a full batch or the empty queue.
DrainEnds == sender_pc \in {"drain", "test"} /\ sender_pc' \in {"post", "sleep"}

\* C5: the number of entries a cycle drains and POSTs is min(batch_size, number
\* of entries available), for a batch size the drain compared with (the
\* current one included) and the entries drained and left at its end; and no
\* POST follows a drain of nothing.
C5_BatchBound ==
    [][DrainEnds =>
          LET n == Len(data')
              available == Len(data') + Len(send_queue')
              sizes == {batch_size, max_batch_read} \ {0}
          IN /\ \E size \in sizes :
                    n = IF size <= available THEN size ELSE available
             /\ sender_pc' = "post" <=> n > 0]_vars

\* C6: an entry leaves the queue only through the sender, is in at most one
\* POST and never comes back to the queue: every closed group is in exactly
\* one of the queue, the batch being drained and the bodies POSTed, once; after
\* a POST, failed or not, its entries are in no queue.
C6_AtMostOnce ==
    LET queued == Numbers(send_queue)
        drained == IF sender_pc \in {"wait", "sleep"} THEN <<>> ELSE Numbers(data)
        everywhere == queued \o drained \o Flatten(posted)
    IN /\ NoRepeat(everywhere)
       /\ Range(everywhere) = 1..nclosed
       /\ sender_pc \in {"wait", "sleep"} /\ data # <<>>
            => Numbers(data) = posted[Len(posted)]

\* C6, witness: a POST failed, the cycle after it has drained a later entry,
\* and another entry is queued.
C6_Witness ==
    /\ response # None /\ response # Status(204)
    /\ Len(posted) = 1
    /\ sender_pc = "post"
    /\ data # <<>>
    /\ send_queue # <<>>

-----------------------------------------------------------------------------
(* Properties of the samples that are dropped *)

\* The call left the open-group table and the queue exactly as they were.
TablesUntouched == UNCHANGED <<pending_metrics, send_queue, nclosed>>

\* C7: a sample that faults while it is processed (it lacks a tag its
\* definition requires) is dropped with the open-group table and the queue
\* exactly as before the call; the call returns and later samples are
\* processed.
C7_FaultingSampleDropped ==
    [][\A metric \in Metrics :
          (last_receive' = "fault"
           /\ ~Inactive
           /\ DefinitionOf(metric) # None
           /\ MissingTag(metric, DefinitionOf(metric))
           /\ receive_metric_data(metric))
          => TablesUntouched]_vars

\* C7, witness: a sample without its tag was dropped while a group is open and
\* entries are queued.
C7_Witness ==
    /\ last_receive = "fault"
    /\ pending_metrics # <<>>
    /\ send_queue # <<>>

\* The definitions hold an entry for the sample's source, family and name.
HasDefinition(metric) ==
    /\ metric["source"] \in DOMAIN definitions
    /\ metric["type"] \in DOMAIN definitions[metric["source"]]
    /\ metric["metric"] \in DOMAIN definitions[metric["source"]][metric["type"]]

\* C8: a sample whose (source, family, name) has no definition pushes no
\* queue entry and creates, modifies or closes no open group.
C8_UnknownMetricDropped ==
    [][\A metric \in Metrics :
          (~Inactive
           /\ ~HasDefinition(metric)
           /\ receive_metric_data(metric))
          => TablesUntouched /\ last_receive' = "unknown"]_vars

\* C8, witness: a sample without a definition was dropped while a group is
\* open.
C8_Witness ==
    /\ last_receive = "unknown"
    /\ enabled /\ definitions # None
    /\ pending_metrics # <<>>

\* C9: while the plugin is disabled (empty url or empty database) or the
\* definitions are not loaded, every ingest call is a no-op, whatever the
\* sample: the open-group table and the dispatch queue are unchanged.
C9_InactiveIngestIsNoOp ==
    [][\A metric \in Metrics :
          ((url = "" \/ database = "" \/ definitions = None)
           /\ receive_metric_data(metric))
          => TablesUntouched]_vars

-----------------------------------------------------------------------------
(* Disabled mode *)

\* The plugin is disabled: the url or the database is empty.
Disabled == url = "" \/ database = ""

\* An HTTP call is made: requests.post sends the request.
HttpCall == sender_pc = "post" /\ sender_pc' = "wait"

\* C10: in every state in which the plugin is disabled (empty url or empty
\* database), also one reached through set_config while entries closed earlier
\* are still to be sent, no queue entry is produced and no HTTP call is made.
C10_DisabledNoEntriesNoCalls ==
    [][Disabled => Len(send_queue') <= Len(send_queue) /\ ~HttpCall]_vars

-----------------------------------------------------------------------------
(* Properties of the definition loader *)

\* The steps the loader may take, and what may happen to the definitions.
LoaderSteps ==
    /\ loader_pc = "test" /\ loader_pc' # "test"
         => loader_pc' = IF definitions = None THEN "call" ELSE "done"
    /\ loader_pc = "call" => definitions = None
    /\ loader_pc = "call" /\ loader_pc' # "call"
         => loader_pc' = "sleep" /\ definitions' \in {None, Defs}
    /\ loader_pc = "sleep" /\ loader_pc' # "sleep" => loader_pc' = "test"
    /\ loader_pc = "done" => loader_pc' = "done"
    /\ loader_pc # "call" => definitions' = definitions
    /\ definitions # None => definitions' = definitions

\* C11: the loader calls the definitions service again after every failed
\* attempt; the service is called only while nothing is installed; after the
\* attempt that succeeds the definitions are installed, no further call is made
\* and the loader exits; once installed the definitions are never replaced or
\* changed by any action.
C11_LoaderRetriesUntilLoaded ==
    /\ [][LoaderSteps]_vars
    /\ (loader_pc = "sleep" /\ definitions = None) ~> (loader_pc = "call")
    /\ (definitions # None) ~> (loader_pc = "done")

\* C11, witness: the loader has exited, the definitions are the ones the
\* service returned, and samples have been grouped with them since.
C11_Witness ==
    /\ loader_pc = "done"
    /\ definitions = Defs
    /\ nclosed > 0

-----------------------------------------------------------------------------
(* Progress of the sender *)

\* The entry of the n-th group closed has been handed to requests.post.
Attempted(n) == n \in Range(Flatten(posted))

\* C12: the sender survives delivery faults and keeps draining: the thread is
\* always at one of the steps of its loop, after a POST that brought a status
\* other than 204 or raised the next cycle starts, and every entry pushed to
\* the queue is eventually popped and included in a POST attempt.
C12_SenderKeepsDraining ==
    /\ [](sender_pc \in {"drain", "test", "post", "wait", "sleep"})
    /\ (sender_pc = "sleep" /\ response # None /\ response # Status(204))
         ~> (sender_pc = "drain")
    /\ \A n \in 1..MaxFairClosed : (nclosed >= n) ~> Attempted(n)

-----------------------------------------------------------------------------
(* Properties of the encoders *)

\* The open group the sample is in after the call that accepted it.
Landed(metric) ==
    LET b == BucketOf(metric)
        before == Entries(pending_metrics, b)
        after == pending_metrics'[b]
        i == FirstMatch(before, TagsOf(metric, DefinitionOf(metric)), DefinitionOf(metric))
    IN IF last_receive' = "merge" THEN after[i] ELSE after[Len(after)]

\* The field value the call stored for the sample, as text.
StoredText(metric) == PyStr(Landed(metric).fields[metric["metric"]])

\* The encodings C13 gives by the kind of value.
TextOf(v) ==
    CASE v.kind = "str" -> "\"" \o Join(v.text, " ") \o "\""
      [] v.kind = "bool" -> IF v = PyBool(TRUE) THEN "true" ELSE "false"
      [] v.kind = "int" -> v.text[1] \o "i"

\* C13 as claimed: a string is stored wrapped in double quotes, a boolean as
\* the token true or false, an integer as its digits followed by i.
C13_BooleanAsLowerCaseToken ==
    [][\A metric \in EncodingMetrics :
          (Accepted(metric) /\ receive_metric_data(metric))
          => StoredText(metric) = TextOf(metric["value"])]_vars

RECURSIVE Listed(_)
\* The entries of the mapping d as key=text joined by commas: one text for
\* every arrangement of the entries.
Listed(d) ==
    IF Cardinality(DOMAIN d) = 1
    THEN {k \o "=" \o PyStr(d[k]) : k \in DOMAIN d}
    ELSE UNION {{k \o "=" \o PyStr(d[k]) \o "," \o rest :
                    rest \in Listed([x \in DOMAIN d \ {k} |-> d[x]])} : k \in DOMAIN d}

\* The text of tag k for a sample: its source in lower case for type, a string
\* with every space escaped by a backslash, the digits of a number.
TagText(metric, k) ==
    IF k = "type" THEN Lower(metric["source"])
    ELSE IF metric[k].kind = "str" THEN Join(metric[k].text, "\\ ")
    ELSE metric[k].text[1]

\* The line of a queued entry without its timestamp segment, for every
\* arrangement of its tags and of its fields.
LineHead(e) ==
    {e.type \o "," \o tags \o " " \o fields :
        tags \in Listed(e.group.tags), fields \in Listed(e.group.fields)}

\* C14: every entry pushed to the queue for a closed group is one line: the
\* family, a comma, the tags as key=value joined by commas, a space, the fields
\* as name=encoded joined by commas, a space and the group's timestamp; the
\* tags of a group are those of the sample that opened it, with the spaces of
\* string values escaped, and its timestamp is that sample's seconds times
\* 1000000000; without a timestamp the encoder leaves the last segment out.
C14_EntryEncoder ==
    [][/\ \A metric \in Metrics :
            (last_receive' \in {"new", "flush"}
             /\ Accepted(metric) /\ receive_metric_data(metric))
            => /\ Landed(metric).timestamp = metric["timestamp"] * 1000000000
               /\ \A k \in DOMAIN Landed(metric).tags :
                      PyStr(Landed(metric).tags[k]) = TagText(metric, k)
       /\ Len(send_queue') > Len(send_queue) =>
            LET e == Head(send_queue')
            IN /\ e.lines = {head \o " " \o ToString(e.group.timestamp) :
                                 head \in LineHead(e)}
               /\ build_entry(e.type, e.group.tags, e.group.fields, None) = LineHead(e)
               /\ \E t \in Timestamps : e.group.timestamp = t * 1000000000]_vars

\* C14, witness: a group with a string tag holding a space and a group with
\* two fields were closed and queued.
C14_Witness ==
    /\ Len(send_queue) = 2
    /\ "energy,device=Meter\\ 1,type=openmotics,id=1 current=5i 1000000000"
         \in send_queue[2].lines
    /\ "energy,type=openmotics,id=1 voltage=True,power=230i 2000000000"
         \in send_queue[1].lines

-----------------------------------------------------------------------------
(* Properties of the matching *)

\* The open group the scan of the call for the sample stops at.
Matched(metric) ==
    LET before == Entries(pending_metrics, BucketOf(metric))
    IN before[FirstMatch(before, TagsOf(metric, DefinitionOf(metric)),
                         DefinitionOf(metric))]

\* C15: a sample merges into, or closes, only an open group of its bucket
\* whose TagSet equals its own TagSet, and of those the first in insertion
\* order; a group with another TagSet (one with more tag keys, declared by
\* another metric of the family) is never merged into or closed by it.
C15_MatchOnEqualTagSet ==
    [][\A metric \in Metrics :
          (last_receive' \in {"merge", "flush"}
           /\ Accepted(metric) /\ receive_metric_data(metric))
          => LET before == Entries(pending_metrics, BucketOf(metric))
                 tags == TagsOf(metric, DefinitionOf(metric))
                 i == FirstMatch(before, tags, DefinitionOf(metric))
             IN /\ before[i].tags = tags
                /\ \A j \in 1..(i - 1) : before[j].tags # tags]_vars

-----------------------------------------------------------------------------
(* Properties of one ingest call *)

\* The call for the sample merged it into the open group at some index: only
\* that group's field of the sample's name was set, nothing was closed.
MergedInto(metric) ==
    LET before == Entries(pending_metrics, BucketOf(metric))
        after == pending_metrics'[BucketOf(metric)]
    IN /\ send_queue' = send_queue
       /\ \E i \in 1..Len(before) :
              after = [before EXCEPT ![i].fields =
                          Put(@, metric["metric"], EncodeValue(metric["value"]))]

\* The call for the sample started one new group, the last of the list, that
\* holds the sample alone; closed is the number of groups the call closed.
StartedGroup(metric, closed) ==
    LET before == Entries(pending_metrics, BucketOf(metric))
        after == pending_metrics'[BucketOf(metric)]
    IN /\ Len(after) = Len(before) - closed + 1
       /\ after[Len(after)] =
            [timestamp |-> metric["timestamp"] * NanosPerSecond,
             tags |-> TagsOf(metric, DefinitionOf(metric)),
             fields |-> (metric["metric"] :> EncodeValue(metric["value"]))]

\* C16: an ingest call closes at most one group and pushes at most one
\* entry, and an accepted sample either merges into an open group or starts
\* exactly one new group, never both and never neither.
C16_OneCloseAndMergeOrNew ==
    [][\A metric \in Metrics :
          receive_metric_data(metric) =>
              LET closed == Len(send_queue') - Len(send_queue)
              IN /\ closed \in {0, 1}
                 /\ nclosed' = nclosed + closed
                 /\ closed = 1 => Tail(send_queue') = send_queue
                 /\ Accepted(metric) =>
                        (MergedInto(metric) /\ ~StartedGroup(metric, closed))
                        \/ (~MergedInto(metric) /\ StartedGroup(metric, closed))]_vars

\* C16, witness: a call closed a group and started a new one next to another
\* open group, after a call that merged.
C16_Witness ==
    /\ last_receive = "flush"
    /\ \E b \in DOMAIN pending_metrics : Len(pending_metrics[b]) >= 2
    /\ \E k \in 1..Len(send_queue) : Cardinality(DOMAIN send_queue[k].group.fields) >= 2

-----------------------------------------------------------------------------
(* Properties of the life of a group *)

\* The step is an ingest call for a sample that has the identity of the open
\* group g of bucket b (its bucket and its TagSet) and another timestamp.
ClosedByItsOwnSample(b, g) ==
    \E metric \in Metrics :
        /\ Accepted(metric)
        /\ receive_metric_data(metric)
        /\ BucketOf(metric) = b
        /\ TagsOf(metric, DefinitionOf(metric)) = g.tags
        /\ metric["timestamp"] * NanosPerSecond # g.timestamp

\* C17: a group is closed and queued only by an ingest call for a sample that
\* matches the group (its bucket and TagSet) and carries another timestamp; no
\* other action closes a group or removes it from the open list.
C17_ClosedOnlyByItsOwnSample ==
    [][/\ Len(send_queue') > Len(send_queue)
          => /\ Len(send_queue') = Len(send_queue) + 1
             /\ \E b \in DOMAIN pending_metrics :
                    ClosedByItsOwnSample(b, Head(send_queue').group)
       /\ \A b \in DOMAIN pending_metrics :
            \A k \in 1..Len(pending_metrics[b]) :
                LET g == pending_metrics[b][k]
                IN (\A j \in 1..Len(pending_metrics'[b]) :
                        ~(/\ pending_metrics'[b][j].timestamp = g.timestamp
                          /\ pending_metrics'[b][j].tags = g.tags))
                   => ClosedByItsOwnSample(b, g)]_vars

\* Every sample of the model.
AllMetrics == Metrics \cup EncodingMetrics \cup FieldMetrics

\* The open group after is the open group before, with the field of the
\* sample's name set or not: no name is gone and no other value has changed.
Extends(after, before, metric) ==
    /\ after.timestamp = before.timestamp
    /\ after.tags = before.tags
    /\ DOMAIN before.fields \subseteq DOMAIN after.fields
    /\ DOMAIN after.fields \subseteq DOMAIN before.fields \cup {metric["metric"]}
    /\ \A n \in DOMAIN before.fields \ {metric["metric"]} :
           after.fields[n] = before.fields[n]
    /\ after # before =>
           after.fields[metric["metric"]] = EncodeValue(metric["value"])

\* C18: while a group is open the names of its fields only grow, a sample for
\* a name already there replaces the value of that name; the entry queued when
\* the group closes renders exactly the fields the group held then; an ingest
\* call changes no entry that is in the queue.
C18_FieldsGrowAndFreeze ==
    [][\A metric \in AllMetrics :
          receive_metric_data(metric) =>
              LET closed == Len(send_queue') - Len(send_queue)
              IN /\ \A k \in 1..Len(send_queue) : send_queue'[k + closed] = send_queue[k]
                 /\ \A b \in DOMAIN pending_metrics :
                        LET before == pending_metrics[b]
                            after == pending_metrics'[b]
                        IN IF closed = 0 \/ b # BucketOf(metric)
                           THEN \A k \in 1..Len(before) :
                                    Extends(after[k], before[k], metric)
                           ELSE \E i \in 1..Len(before) :
                                    /\ Head(send_queue').group = before[i]
                                    /\ Head(send_queue').lines
                                         = {head \o " " \o ToString(before[i].timestamp) :
                                               head \in LineHead(Head(send_queue'))}
                                    /\ \A k \in 1..(i - 1) : after[k] = before[k]
                                    /\ \A k \in (i + 1)..Len(before) :
                                           after[k - 1] = before[k]]_vars

\* C18, witness: a group was closed after the value of its field power was
\* replaced and the name voltage was added, and a later call has come.
C18_Witness ==
    /\ Len(send_queue) >= 1
    /\ "energy,type=openmotics,id=1 voltage=True,power=231i 1000000000"
         \in send_queue[Len(send_queue)].lines
    /\ nclosed >= 2

\* The open groups of bucket b in the table pm.
GroupsOf(pm, b) == {Entries(pm, b)[i] : i \in 1..Len(Entries(pm, b))}

\* C19: no cross-timestamp mixing: a call for a sample of timestamp T changes
\* or creates only open groups of timestamp T, and whatever it queues is an
\* open group as it was before the call; so every field of an open group or of
\* a queued entry of timestamp T comes from a sample of timestamp T.
C19_NoCrossTimestampMixing ==
    [][\A metric \in AllMetrics :
          receive_metric_data(metric) =>
              /\ \A b \in DOMAIN pending_metrics' :
                     \A g \in GroupsOf(pending_metrics', b) :
                         \/ g \in GroupsOf(pending_metrics, b)
                         \/ /\ g.timestamp = metric["timestamp"] * NanosPerSecond
                            /\ b = BucketOf(metric)
                            /\ metric["metric"] \in DOMAIN g.fields
              /\ \A k \in 1..Len(send_queue') :
                     \/ \E j \in 1..Len(send_queue) : send_queue'[k] = send_queue[j]
                     \/ send_queue'[k].group
                            \in GroupsOf(pending_metrics, BucketOf(metric))]_vars

\* C19, witness: groups of both timestamps with two fields each were closed,
\* and the sample that came last was merged.
C19_Witness ==
    /\ last_receive = "merge"
    /\ \E j, k \in 1..Len(send_queue) :
           /\ send_queue[j].group.timestamp = 1000000000
           /\ send_queue[k].group.timestamp = 2000000000
           /\ DOMAIN send_queue[j].group.fields = {"power", "voltage"}
           /\ DOMAIN send_queue[k].group.fields = {"power", "voltage"}

-----------------------------------------------------------------------------
(* Startup *)

\* The sender is at a read of self._batch_size: the pop of line 186 has returned.
ReadsBatchSize == sender_pc = "test"

\* The sender is at the reads of line 194-197.
ReadsEndpoint == sender_pc = "post"

\* C20: the threads run before _read_config has resolved the configuration,
\* yet the sender never reads the batch size, the endpoint or the credentials
\* before they are assigned: self._enabled is assigned last, and the queue is
\* non-empty, or a sample grouped, only after ingestion has read it.
C20_StartupOrdering ==
    /\ "enabled" \in assigned => assigned = AttributeNames
    /\ pending_metrics # <<>> \/ send_queue # <<>> \/ data # <<>>
         => "enabled" \in assigned
    /\ ReadsBatchSize => "batch_size" \in assigned
    /\ ReadsEndpoint => PostReads \subseteq assigned

\* C20, witness: while _read_config is between its assignments, the loader
\* has installed the definitions, the sender has been through a cycle and a
\* sample has come and was dropped.
C20_Witness ==
    /\ "batch_size" \in assigned
    /\ "enabled" \notin assigned
    /\ definitions = Defs
    /\ sender_pc = "sleep"
    /\ last_receive = "fault"

====
